---- MODULE Spec2Model ----
(***************************************************************************)
(* A model of GraphQL.py: the command line of main, the introspection      *)
(* request and the schema walk of GraphQLVulnerabilityTester, and the      *)
(* three overloading probes sent for every testable field.                 *)
(*                                                                         *)
(* Python values (parsed JSON, None, strings) are tagged records, so that  *)
(* a value of any shape can stand where the code expects a dict.           *)
(***************************************************************************)
EXTENDS Integers, Sequences, FiniteSets, TLC

VARIABLES
    argv,             \* sys.argv
    pc,               \* position of main: "main", "introspect", "alias",
                      \* "directive", "duplicate", "exit"
    exit_code,        \* exit status of the process, -1 while it runs
    uncaught,         \* the exception that ended the process, "none" if none
    num_iterations,   \* main's num_iterations
    testable_fields,  \* tester.testable_fields
    introspection,    \* what test_introspection returned
    response,         \* the last HTTP response received (or the failure to get one)
    requests,         \* the payloads handed to requests.post, in order
    field_i,          \* index of main's for loop in testable_fields
    probes,           \* the attacks announced on stdout: <<attack, field_name>>
    last              \* the last probe: what _send_query returned, what the
                      \* protection check did, and how long requests.post took

vars == <<argv, pc, exit_code, uncaught, num_iterations, testable_fields,
          introspection, response, requests, field_i, probes, last>>

-----------------------------------------------------------------------------
(* Bounds of the model *)

MaxTypes == 2          \* types in a generated schema
MaxSchemaFields == 2   \* fields in a generated schema, over all its types
MaxDepth == 2          \* levels of ofType below a field's type reference
MaxIter == 2           \* largest num_iterations given on the command line

(* Program constants *)

DefaultIterations == 100

-----------------------------------------------------------------------------
(* Python values *)

Null == [t |-> "null"]
Str(s) == [t |-> "str", s |-> s]
Num(n) == [t |-> "num", n |-> n]
Bool(b) == [t |-> "bool", b |-> b]
Arr(a) == [t |-> "arr", a |-> a]
Obj(m) == [t |-> "obj", m |-> m]
EmptyObj == Obj(<< >>)

IsObj(v) == v.t = "obj"
IsArr(v) == v.t = "arr"
IsStr(v) == v.t = "str"

\* bool(v)
Truthy(v) ==
    CASE v.t = "null" -> FALSE
      [] v.t = "str"  -> Len(v.s) > 0
      [] v.t = "num"  -> v.n # 0
      [] v.t = "bool" -> v.b
      [] v.t = "arr"  -> Len(v.a) > 0
      [] v.t = "obj"  -> DOMAIN v.m # {}

\* k in d, for a dict d
Has(d, k) == k \in DOMAIN d.m

\* d.get(k, default), for a dict d
Get(d, k, default) == IF Has(d, k) THEN d.m[k] ELSE default

\* s.startswith(p)
StartsWith(s, p) == Len(s) >= Len(p) /\ SubSeq(s, 1, Len(p)) = p

\* p in s, for strings
Contains(s, p) ==
    \E i \in 1..(Len(s) - Len(p) + 1) : SubSeq(s, i, i + Len(p) - 1) = p

\* k in v, for any value v: "raise" where Python raises TypeError
In(k, v) ==
    CASE v.t = "obj" -> IF Has(v, k) THEN "true" ELSE "false"
      [] v.t = "arr" -> IF \E i \in 1..Len(v.a) : v.a[i] = Str(k) THEN "true" ELSE "false"
      [] v.t = "str" -> IF Contains(v.s, k) THEN "true" ELSE "false"
      [] OTHER       -> "raise"

-----------------------------------------------------------------------------
(* _analyze_schema *)

ObjectKinds == {Str("OBJECT"), Str("LIST")}

\* field_type.get('ofType', {}) or {}
OfTypeOrEmpty(field_type) ==
    LET o == Get(field_type, "ofType", EmptyObj)
    IN  IF Truthy(o) THEN o ELSE EmptyObj

\* is_object looking at the field's own kind alone
is_object_NoUnwrap(field_type) == Get(field_type, "kind", Null) \in ObjectKinds

\* The expression is_object, where it raises nothing.
is_object(field_type) ==
    \/ Get(field_type, "kind", Null) \in ObjectKinds
    \/ Get(OfTypeOrEmpty(field_type), "kind", Null) \in ObjectKinds

\* Whether evaluating is_object raises AttributeError: the second operand is
\* evaluated only when the first is false.
is_object_raises(field_type) ==
    /\ Get(field_type, "kind", Null) \notin ObjectKinds
    /\ ~IsObj(OfTypeOrEmpty(field_type))

Raised(acc) == [raised |-> TRUE, fields |-> acc]
Completed(acc) == [raised |-> FALSE, fields |-> acc]

\* One iteration of the loop over type_info['fields'].
AnalyzeField(type_info, field, acc) ==
    IF ~IsObj(field) THEN Raised(acc)
    ELSE LET field_type == Get(field, "type", EmptyObj)
         IN  IF ~IsObj(field_type) THEN Raised(acc)
             ELSE IF is_object_raises(field_type) THEN Raised(acc)
             ELSE IF ~is_object(field_type) THEN Completed(acc)
             ELSE IF ~Has(field, "name") THEN Raised(acc)
             ELSE Completed(Append(acc, [type_name  |-> type_info.m["name"],
                                         field_name |-> field.m["name"]]))

RECURSIVE FieldLoop(_, _, _, _)
FieldLoop(type_info, fields, j, acc) ==
    IF j > Len(fields) THEN Completed(acc)
    ELSE LET r == AnalyzeField(type_info, fields[j], acc)
         IN  IF r.raised THEN r ELSE FieldLoop(type_info, fields, j + 1, r.fields)

\* type_info['name'].startswith('__')
IsInternal(name) == StartsWith(name, "__")

\* One iteration of the loop over schema['types'].
AnalyzeType(type_info, acc) ==
    IF ~IsObj(type_info) THEN Raised(acc)
    ELSE IF ~Has(type_info, "name") THEN Raised(acc)
    ELSE IF ~IsStr(type_info.m["name"]) THEN Raised(acc)
    ELSE IF IsInternal(type_info.m["name"].s) THEN Completed(acc)
    ELSE LET fields == Get(type_info, "fields", Null)
         IN  IF ~Truthy(fields) THEN Completed(acc)
             ELSE IF ~IsArr(fields) THEN Raised(acc)
             ELSE FieldLoop(type_info, fields.a, 1, acc)

RECURSIVE TypeLoop(_, _, _)
TypeLoop(types, i, acc) ==
    IF i > Len(types) THEN Completed(acc)
    ELSE LET r == AnalyzeType(types[i], acc)
         IN  IF r.raised THEN r ELSE TypeLoop(types, i + 1, r.fields)

\* self._analyze_schema(schema), with self.testable_fields = acc on entry:
\* the list on return, and whether an exception left the method.
_analyze_schema(schema, acc) ==
    IF ~IsObj(schema) THEN Raised(acc)
    ELSE IF ~Has(schema, "types") THEN Raised(acc)
    ELSE LET types == schema.m["types"]
         IN  IF IsArr(types) THEN TypeLoop(types.a, 1, acc)
             ELSE IF (IsStr(types) \/ IsObj(types)) /\ ~Truthy(types) THEN Completed(acc)
             ELSE Raised(acc)

-----------------------------------------------------------------------------
(* HTTP: what requests.post gives back *)

\* requests.post raised a RequestException
TransportFailure(detail) == [kind |-> "error", detail |-> detail]
\* a response whose body is not JSON: response.json() raises
TextBody(text) == [kind |-> "text", text |-> text]
\* a response whose body parses to the value v
JsonBody(v) == [kind |-> "json", value |-> v]
NoResponse == [kind |-> "none"]

\* The document sent by test_introspection (its text is abbreviated here).
IntrospectionQuery == "query IntrospectionQuery { __schema { types { ...FullType } } }"

-----------------------------------------------------------------------------
(* test_introspection *)

\* test_introspection reporting introspection enabled for any body with data
test_introspection_DataOnly(resp, acc) ==
    IF resp.kind = "json" /\ In("data", resp.value) = "true"
    THEN [ret |-> TRUE, fields |-> acc]
    ELSE [ret |-> FALSE, fields |-> acc]

\* self.test_introspection() when requests.post gives resp and
\* self.testable_fields = acc on entry: the value returned and the list left.
test_introspection(resp, acc) ==
    LET no == [ret |-> FALSE, fields |-> acc]
    IN  IF resp.kind # "json" THEN no
        ELSE LET result == resp.value
             IN  IF In("data", result) # "true" THEN no
                 ELSE IF ~IsObj(result) THEN no
                 ELSE LET data == result.m["data"]
                      IN  IF In("__schema", data) # "true" THEN no
                          ELSE IF ~IsObj(data) THEN no
                          ELSE LET r == _analyze_schema(data.m["__schema"], acc)
                               IN  [ret |-> ~r.raised, fields |-> r.fields]

-----------------------------------------------------------------------------
(* int(sys.argv[2]) and str(i) *)

DigitChar(d) == SubSeq("0123456789", d + 1, d + 1)
IsDigit(c) == \E d \in 0..9 : DigitChar(d) = c
DigitVal(c) == CHOOSE d \in 0..9 : DigitChar(d) = c
CharAt(s, i) == SubSeq(s, i, i)

\* str(n)
RECURSIVE NatToStr(_)
NatToStr(n) == IF n < 10 THEN DigitChar(n) ELSE NatToStr(n \div 10) \o DigitChar(n % 10)
IntToStr(n) == IF n < 0 THEN "-" \o NatToStr(-n) ELSE NatToStr(n)

\* The value of the first k characters of a digit string, underscores skipped.
RECURSIVE DigitsValue(_, _)
DigitsValue(s, k) ==
    IF k = 0 THEN 0
    ELSE IF CharAt(s, k) = "_" THEN DigitsValue(s, k - 1)
    ELSE 10 * DigitsValue(s, k - 1) + DigitVal(CharAt(s, k))

\* Digits, with single underscores allowed between two digits.
IsDigitString(s) ==
    /\ Len(s) >= 1
    /\ \A i \in 1..Len(s) : IsDigit(CharAt(s, i)) \/ CharAt(s, i) = "_"
    /\ IsDigit(CharAt(s, 1)) /\ IsDigit(CharAt(s, Len(s)))
    /\ \A i \in 1..(Len(s) - 1) : ~(CharAt(s, i) = "_" /\ CharAt(s, i + 1) = "_")

\* int(s): surrounding blanks are stripped, then an optional sign and the
\* digits; anything else raises ValueError (ok = FALSE).
ParseInt(s) ==
    LET solid == {i \in 1..Len(s) : CharAt(s, i) # " "}
    IN  IF solid = {} THEN [ok |-> FALSE, value |-> 0]
        ELSE LET lo == CHOOSE i \in solid : \A j \in solid : i <= j
                 hi == CHOOSE i \in solid : \A j \in solid : i >= j
                 signed == CharAt(s, lo) = "+" \/ CharAt(s, lo) = "-"
                 digits == SubSeq(s, IF signed THEN lo + 1 ELSE lo, hi)
                 mag == DigitsValue(digits, Len(digits))
             IN  IF ~IsDigitString(digits) THEN [ok |-> FALSE, value |-> 0]
                 ELSE [ok |-> TRUE,
                       value |-> IF CharAt(s, lo) = "-" THEN 0 - mag ELSE mag]

-----------------------------------------------------------------------------
(* The three query builders *)

\* sep.join(parts[lo..hi]), by halves
RECURSIVE JoinRange(_, _, _, _)
JoinRange(parts, sep, lo, hi) ==
    IF lo > hi THEN ""
    ELSE IF lo = hi THEN parts[lo]
    ELSE LET mid == (lo + hi) \div 2
         IN  JoinRange(parts, sep, lo, mid) \o sep \o JoinRange(parts, sep, mid + 1, hi)
Join(parts, sep) == JoinRange(parts, sep, 1, Len(parts))

\* f"{v}" for a field name taken from the schema
Format(v) ==
    CASE v.t = "str"  -> v.s
      [] v.t = "null" -> "None"
      [] v.t = "num"  -> IntToStr(v.n)
      [] v.t = "bool" -> IF v.b THEN "True" ELSE "False"

\* aliases numbered from 1
AliasPart_FromOne(i, field_name) ==
    "alias_" \o IntToStr(i + 1) \o ": " \o field_name \o " { id name }"

\* range(n) is empty for n <= 0
AliasPart(i, field_name) == "alias_" \o IntToStr(i) \o ": " \o field_name \o " { id name }"
AliasParts(field_name, n) == [k \in 1..n |-> AliasPart(k - 1, field_name)]
AliasQuery(field_name, n) == "query {" \o Join(AliasParts(field_name, n), " ") \o "}"

Directives(n) == Join([k \in 1..n |-> "@include(if: true)"], " ")
DirectiveQuery(field_name, n) ==
    "query { " \o field_name \o " " \o Directives(n) \o " { id name } }"

DuplicatedFields(n) == Join([k \in 1..n |-> "id name"], " ")
DuplicateQuery(field_name, n) ==
    "query { " \o field_name \o " { " \o DuplicatedFields(n) \o " } }"

-----------------------------------------------------------------------------
(* _send_query and the protection hint *)

\* _send_query with the body parsed inside the timed region's handler, so that
\* a body that is not JSON is reported as a request error taking no time
_send_query_OneHandler(net, dt) ==
    CASE net.kind = "error" ->
            [result |-> Null, response_time |-> 0,
             error |-> Str("Request error: " \o net.detail)]
      [] net.kind = "text" ->
            [result |-> Null, response_time |-> 0,
             error |-> Str("Request error: " \o net.text)]
      [] net.kind = "json" ->
            [result |-> net.value, response_time |-> dt, error |-> Null]

\* self._send_query(query) when requests.post gives net after dt ticks
_send_query(net, dt) ==
    CASE net.kind = "error" ->
            [result |-> Null, response_time |-> 0,
             error |-> Str("Request error: " \o net.detail)]
      [] net.kind = "text" ->
            [result |-> Null, response_time |-> dt,
             error |-> Str("Invalid JSON response: " \o net.text)]
      [] net.kind = "json" ->
            [result |-> net.value, response_time |-> dt, error |-> Null]

\* the check written result.get('errors') or error
ProtectionCheck_Unguarded(result, error) ==
    IF ~IsObj(result) THEN "raise"
    ELSE IF Truthy(Get(result, "errors", Null)) \/ Truthy(error) THEN "hint"
    ELSE "none"

\* if error or (result and result.get('errors')): "hint" when the branch is
\* taken, "none" when it is not, "raise" when result has no method get.
ProtectionCheck(result, error) ==
    IF Truthy(error) THEN "hint"
    ELSE IF ~Truthy(result) THEN "none"
    ELSE IF ~IsObj(result) THEN "raise"
    ELSE IF Truthy(Get(result, "errors", Null)) THEN "hint"
    ELSE "none"

-----------------------------------------------------------------------------
(* The inputs the model draws: command lines, schemas, responses *)

Prog == "GraphQL.py"
Url == "http://target/graphql"

\* What may follow the URL on the command line.
IterArgs ==
    {IntToStr(k) : k \in (0 - 1)..MaxIter}
        \cup {" +1_0 ", "abc", "", "1.5", "1__0", "-", "_1", "+ 1"}

Argvs ==
    {<<Prog>>, <<Prog, Url>>, <<Prog, Url, "x", "1">>}
        \cup {<<Prog, Url, a>> : a \in IterArgs}

Kinds == {"SCALAR", "OBJECT", "LIST", "NON_NULL"}

\* Type references with at most d levels of ofType below them; kind and
\* ofType may each be missing, ofType may be null.
RECURSIVE TypeRefs(_)
TypeRefs(d) ==
    LET inner == IF d = 0 THEN {} ELSE TypeRefs(d - 1)
    IN  {Obj([kind |-> Str(k), name |-> Null, ofType |-> o]) :
                k \in Kinds, o \in {Null} \cup inner}
          \cup {Obj([kind |-> Str(k)]) : k \in Kinds}
          \cup {Obj([name |-> Null, ofType |-> o]) : o \in inner}

Ref(kind, ofType) == Obj([kind |-> Str(kind), name |-> Null, ofType |-> ofType])
Field(name, type) == Obj([name |-> Str(name), type |-> type])
TypeEntry(name, fields) == Obj([name |-> Str(name), fields |-> Arr(fields)])

UsersField == Field("users", Ref("OBJECT", Null))
PostsField == Field("posts", Ref("NON_NULL", Ref("LIST", Null)))
IdField == Field("id", Ref("SCALAR", Null))
SchemaFields == {UsersField, PostsField, IdField}

RECURSIVE Sum(_, _)
Sum(lens, k) == IF k = 0 THEN 0 ELSE Sum(lens, k - 1) + lens[k]

\* The list of types named names[i], type i holding the next lens[i] of fields.
TypesOf(names, lens, fields) ==
    [i \in 1..Len(names) |->
        TypeEntry(names[i], SubSeq(fields, Sum(lens, i - 1) + 1, Sum(lens, i)))]

\* How at most budget fields may be spread over k types.
Spreads(k, budget) == {l \in [1..k -> 0..budget] : Sum(l, k) <= budget}

\* Entries with expected keys missing or null.
MalformedTypes ==
    { Null,
      Obj([fields |-> Arr(<<UsersField>>)]),
      Obj([name |-> Null, fields |-> Arr(<<UsersField>>)]),
      Obj([name |-> Str("Query")]),
      Obj([name |-> Str("Query"), fields |-> Null]),
      TypeEntry("Query", <<UsersField, Obj([name |-> Str("posts"), type |-> Null])>>),
      TypeEntry("Query", <<Obj([name |-> Str("posts")]), UsersField>>),
      TypeEntry("Query", <<UsersField, Obj([type |-> Ref("OBJECT", Null)])>>),
      TypeEntry("Query", <<Obj([type |-> Ref("SCALAR", Null)]), UsersField>>),
      TypeEntry("Query", <<Obj([name |-> Null, type |-> Ref("LIST", Null)])>>),
      TypeEntry("Query", <<Null, UsersField>>),
      TypeEntry("__Type", <<Obj([name |-> Str("posts"), type |-> Null])>>) }

Around == {<< >>, <<TypeEntry("Query", <<PostsField>>)>>}
MalformedTypeLists ==
    {before \o <<m>> \o after : before \in Around, m \in MalformedTypes, after \in Around}

Schema(types) == Obj([types |-> types])
Enabled(schema) == JsonBody(Obj("data" :> Obj("__schema" :> schema)))

MalformedSchemas ==
    {Schema(Arr(tl)) : tl \in MalformedTypeLists}
        \cup {Null, EmptyObj, Schema(Null), Schema(EmptyObj), Schema(Str("types"))}

\* Schemas of one type with one field, over every type reference.
OneFieldSchemas ==
    {Schema(Arr(<<TypeEntry("Query", <<Field("users", ref)>>)>>)) : ref \in TypeRefs(MaxDepth)}

\* Responses to the introspection request that carry no data.__schema.
NoSchemaResponses ==
    {TransportFailure("timeout"), TextBody(""), TextBody("<html>__schema</html>")}
        \cup {JsonBody(v) : v \in
                {Null, Num(0), Num(1), Bool(TRUE), Str("data"), Str("x"),
                 Arr(<< >>), Arr(<<Str("data")>>), EmptyObj,
                 Obj([errors |-> Arr(<<Str("introspection is disabled")>>)]),
                 Obj([data |-> Null]), Obj([data |-> EmptyObj]), Obj([data |-> Num(1)]),
                 Obj([data |-> Obj([users |-> Arr(<< >>)])]),
                 Obj([data |-> Str("__schema")]),
                 Obj([data |-> Arr(<<Str("__schema")>>)])}}

\* Responses whose data.__schema is not a list of well-formed types.
MalformedResponses == {Enabled(s) : s \in MalformedSchemas}
OneFieldResponses == {Enabled(s) : s \in OneFieldSchemas}

\* How long requests.post may take, in ticks.
Elapsed == {0, 2}

\* What requests.post gives back to a probe.
ProbeResponses ==
    {TransportFailure("timeout"), TextBody(""), TextBody("<html>403</html>")}
        \cup {JsonBody(v) : v \in
                {Null, Num(0), Str("blocked"), Arr(<< >>), Arr(<<Obj([errors |-> Arr(<<Str("too complex")>>)])>>),
                 EmptyObj,
                 Obj([data |-> Obj([users |-> Arr(<< >>)])]),
                 Obj([data |-> Null, errors |-> Arr(<<Str("too complex")>>)]),
                 Obj([data |-> EmptyObj, errors |-> Arr(<< >>)]),
                 Obj([data |-> EmptyObj, errors |-> Null])}}

-----------------------------------------------------------------------------
(* The run *)

NoProbe == [result |-> Null, response_time |-> 0, error |-> Null, check |-> "none",
            elapsed |-> 0]

Init ==
    /\ argv \in Argvs
    /\ pc = "main"
    /\ exit_code = 0 - 1
    /\ uncaught = "none"
    /\ num_iterations = 0
    /\ testable_fields = << >>
    /\ introspection = FALSE
    /\ response = NoResponse
    /\ requests = << >>
    /\ field_i = 0
    /\ probes = << >>
    /\ last = NoProbe

\* main, up to the construction of the tester
main ==
    /\ pc = "main"
    /\ IF Len(argv) < 2
         THEN /\ pc' = "exit" /\ exit_code' = 1
              /\ UNCHANGED <<uncaught, num_iterations>>
       ELSE IF Len(argv) > 2 /\ ~ParseInt(argv[3]).ok
         THEN /\ pc' = "exit" /\ exit_code' = 1 /\ uncaught' = "ValueError"
              /\ UNCHANGED num_iterations
       ELSE /\ num_iterations' =
                    IF Len(argv) > 2 THEN ParseInt(argv[3]).value ELSE DefaultIterations
            /\ pc' = "introspect"
            /\ UNCHANGED <<exit_code, uncaught>>
    /\ UNCHANGED <<argv, testable_fields, introspection, response, requests,
                   field_i, probes, last>>

\* tester.test_introspection() and the branch main takes on its result
TestIntrospection(resp) ==
    /\ pc = "introspect"
    /\ LET r == test_introspection(resp, testable_fields)
       IN  /\ testable_fields' = r.fields
           /\ introspection' = r.ret
           /\ IF r.ret /\ Len(r.fields) > 0
                THEN pc' = "alias" /\ field_i' = 1 /\ UNCHANGED exit_code
                ELSE pc' = "exit" /\ exit_code' = 0 /\ UNCHANGED field_i
    /\ requests' = Append(requests,
            [query |-> IntrospectionQuery, operationName |-> Str("IntrospectionQuery")])
    /\ response' = resp
    /\ UNCHANGED <<argv, uncaught, num_iterations, probes, last>>

\* test_introspection on a schema of at most MaxTypes well-formed types, named
\* from names, holding at most MaxSchemaFields fields of fieldset in all.
TestIntrospectionOn(names, fieldset) ==
    /\ pc = "introspect"
    /\ \E k \in 0..MaxTypes : \E lens \in Spreads(k, MaxSchemaFields) :
          \E ns \in [1..k -> names], fs \in [1..Sum(lens, k) -> fieldset] :
              TestIntrospection(Enabled(Schema(Arr(TypesOf(ns, lens, fs)))))

\* test_introspection on a response drawn from a set
TestIntrospectionIn(responses) ==
    /\ pc = "introspect"
    /\ \E resp \in responses : TestIntrospection(resp)

\* The part the three _test_* methods share: send the query, print the
\* response time and, if the check says so, the protection hint; next is
\* where main continues when the method returns.
Probe(attack, query, net, dt, next) ==
    LET sent == _send_query(net, dt)
        check == ProtectionCheck(sent.result, sent.error)
    IN  /\ requests' = Append(requests, [query |-> query, operationName |-> Null])
        /\ response' = net
        /\ probes' = Append(probes, <<attack, testable_fields[field_i].field_name>>)
        /\ last' = [result |-> sent.result, response_time |-> sent.response_time,
                    error |-> sent.error, check |-> check, elapsed |-> dt]
        /\ IF check = "raise"
             THEN /\ pc' = "exit" /\ exit_code' = 1 /\ uncaught' = "AttributeError"
                  /\ UNCHANGED field_i
           ELSE IF next = "alias" /\ field_i = Len(testable_fields)
             THEN /\ pc' = "exit" /\ exit_code' = 0
                  /\ UNCHANGED <<uncaught, field_i>>
           ELSE /\ pc' = next
                /\ field_i' = IF next = "alias" THEN field_i + 1 ELSE field_i
                /\ UNCHANGED <<exit_code, uncaught>>
        /\ UNCHANGED <<argv, num_iterations, testable_fields, introspection>>

FieldName == Format(testable_fields[field_i].field_name)

_test_alias_overloading ==
    /\ pc = "alias"
    /\ LET query == AliasQuery(FieldName, num_iterations)
       IN  \E net \in ProbeResponses, dt \in Elapsed :
                Probe("ALIAS", query, net, dt, "directive")

_test_directive_overloading ==
    /\ pc = "directive"
    /\ LET query == DirectiveQuery(FieldName, num_iterations)
       IN  \E net \in ProbeResponses, dt \in Elapsed :
                Probe("DIRECTIVE", query, net, dt, "duplicate")

_test_field_duplication ==
    /\ pc = "duplicate"
    /\ LET query == DuplicateQuery(FieldName, num_iterations)
       IN  \E net \in ProbeResponses, dt \in Elapsed :
                Probe("DUPLICATE", query, net, dt, "alias")

\* Well-formed schemas for a whole run: no testable field, one, two under
\* one type, and one field name under an internal type and two others.
RunSchemas ==
    { Schema(Arr(<< >>)),
      Schema(Arr(<<TypeEntry("Query", <<IdField>>)>>)),
      Schema(Arr(<<TypeEntry("Query", <<UsersField>>)>>)),
      Schema(Arr(<<TypeEntry("Query", <<UsersField, IdField, PostsField>>)>>)),
      Schema(Arr(<<TypeEntry("__Schema", <<PostsField>>), TypeEntry("Query", <<PostsField>>),
                   TypeEntry("User", <<PostsField>>)>>)) }

\* What a whole run draws the introspection response from.
RunResponses ==
    NoSchemaResponses \cup MalformedResponses \cup {Enabled(s) : s \in RunSchemas}

Next ==
    \/ main
    \/ TestIntrospectionIn(RunResponses)
    \/ _test_alias_overloading
    \/ _test_directive_overloading
    \/ _test_field_duplication

Spec == Init /\ [][Next]_vars

\* The schema walk alone: a run started without num_iterations, up to the
\* return of test_introspection.
InitWalk ==
    /\ argv = <<Prog, Url>>
    /\ pc = "introspect"
    /\ exit_code = 0 - 1
    /\ uncaught = "none"
    /\ num_iterations = DefaultIterations
    /\ testable_fields = << >>
    /\ introspection = FALSE
    /\ response = NoResponse
    /\ requests = << >>
    /\ field_i = 0
    /\ probes = << >>
    /\ last = NoProbe

WalkResponses == MalformedResponses \cup OneFieldResponses
WalkTypeNames == {"Query", "User", "__Type", "_T"}

NextWalk ==
    \/ TestIntrospectionIn(WalkResponses)
    \/ TestIntrospectionOn(WalkTypeNames, SchemaFields)

SpecWalk == InitWalk /\ [][NextWalk]_vars

-----------------------------------------------------------------------------
(* What the claims speak of *)

\* The number of places of s where p occurs.
Count(s, p) ==
    Cardinality({i \in 1..(Len(s) - Len(p) + 1) : SubSeq(s, i, i + Len(p) - 1) = p})

EndsWith(s, p) == Len(s) >= Len(p) /\ SubSeq(s, Len(s) - Len(p) + 1, Len(s)) = p

\* The response carries data.__schema.
HasSchema(resp) ==
    /\ resp.kind = "json"
    /\ resp.value.t = "obj"
    /\ "data" \in DOMAIN resp.value.m
    /\ resp.value.m["data"].t = "obj"
    /\ "__schema" \in DOMAIN resp.value.m["data"].m

\* Only the introspection request has been sent and answered.
Introspected == Len(requests) = 1

\* The types array of the introspection response (empty if there is none).
WalkTypes ==
    LET schema == response.value.m["data"].m["__schema"]
    IN  IF schema.t = "obj" /\ "types" \in DOMAIN schema.m /\ schema.m["types"].t = "arr"
        THEN schema.m["types"].a ELSE << >>

FieldsOfType(type_info) ==
    IF type_info.t = "obj" /\ "fields" \in DOMAIN type_info.m
            /\ type_info.m["fields"].t = "arr"
    THEN type_info.m["fields"].a ELSE << >>

KindIsObjectOrList(ref) ==
    /\ ref.t = "obj" /\ "kind" \in DOMAIN ref.m
    /\ (ref.m["kind"] = Str("OBJECT") \/ ref.m["kind"] = Str("LIST"))

\* Testable as the specification words it: the kind of the type reference, or
\* of its ofType, is OBJECT or LIST.
OneLevelTestable(ref) ==
    \/ KindIsObjectOrList(ref)
    \/ /\ ref.t = "obj" /\ "ofType" \in DOMAIN ref.m
       /\ KindIsObjectOrList(ref.m["ofType"])

FieldIsTestable(field) ==
    /\ field.t = "obj" /\ "type" \in DOMAIN field.m
    /\ OneLevelTestable(field.m["type"])

NameIsInternal(type_info) ==
    LET n == type_info.m["name"].s
    IN  Len(n) >= 2 /\ CharAt(n, 1) = "_" /\ CharAt(n, 2) = "_"

\* Places <<i, j>> of the testable fields of the types that are not internal.
TestablePlaces ==
    UNION { {<<i, j>> : j \in {j \in 1..Len(FieldsOfType(WalkTypes[i])) :
                                 FieldIsTestable(FieldsOfType(WalkTypes[i])[j])}}
            : i \in {i \in 1..Len(WalkTypes) : ~NameIsInternal(WalkTypes[i])} }

Before(p, q) == p[1] < q[1] \/ (p[1] = q[1] /\ p[2] < q[2])
Rank(p) == 1 + Cardinality({q \in TestablePlaces : Before(q, p)})
PairAt(p) ==
    [type_name  |-> WalkTypes[p[1]].m["name"],
     field_name |-> FieldsOfType(WalkTypes[p[1]])[p[2]].m["name"]]

AttackOrder == <<"ALIAS", "DIRECTIVE", "DUPLICATE">>
PcOrder == <<"alias", "directive", "duplicate">>

\* The probes of a whole run over testable_fields, in order.
ExpectedProbes ==
    [k \in 1..(3 * Len(testable_fields)) |->
        <<AttackOrder[((k - 1) % 3) + 1],
          testable_fields[((k - 1) \div 3) + 1].field_name>>]

\* After the probes sent so far main goes on with the next one, or returns
\* when there is none.
RunGoesOn ==
    /\ uncaught = "none"
    /\ \A k \in 1..Len(probes) : probes[k] = ExpectedProbes[k]
    /\ IF Len(probes) = 3 * Len(testable_fields)
         THEN pc = "exit" /\ exit_code = 0
         ELSE /\ pc = PcOrder[(Len(probes) % 3) + 1]
              /\ field_i = (Len(probes) \div 3) + 1
              /\ exit_code = 0 - 1

-----------------------------------------------------------------------------
(* The claims *)

\* C1: an introspection response without data.__schema makes
\* test_introspection return False and leaves testable_fields empty; main
\* then sends no probe and ends with exit code 0.
C1_NoSchemaMeansDisabled ==
    (Introspected /\ ~HasSchema(response)) =>
        /\ introspection = FALSE
        /\ testable_fields = << >>
        /\ probes = << >>
        /\ pc = "exit" /\ exit_code = 0 /\ uncaught = "none"

C1_Witness ==
    /\ Introspected /\ pc = "exit"
    /\ response = JsonBody(Obj([data |-> Obj([users |-> Arr(<< >>)])]))

\* C2: a run whose introspection succeeded ends having sent exactly the
\* probes ALIAS, DIRECTIVE, DUPLICATE for each testable field in list order,
\* 3 * |F| probes in all.
C2_ThreeProbesPerField ==
    (pc = "exit" /\ introspection) =>
        /\ probes = ExpectedProbes
        /\ Len(requests) = 1 + 3 * Len(testable_fields)

\* C3: a probe on which requests.post raises comes back as
\* (None, 0, "Request error: ...") and does not end the run: main goes on
\* with the next probe of the sequence, wherever the failure falls.
C3_TransportFailureGoesOn ==
    (Len(probes) >= 1 /\ response.kind = "error") =>
        /\ last.result = Null /\ last.response_time = 0
        /\ last.error = Str("Request error: " \o response.detail)
        /\ RunGoesOn

C3_Witness ==
    /\ Len(probes) = 4 /\ response.kind = "error"
    /\ pc = "directive" /\ field_i = 2

\* C4: for a schema of one type that is not internal holding one field, the
\* field is in testable_fields exactly if the kind of its type reference, or
\* of that reference's ofType, is OBJECT or LIST; what lies deeper has no say.
C4_OneLevelOfType ==
    (/\ Introspected /\ HasSchema(response)
     /\ Len(WalkTypes) = 1 /\ WalkTypes[1].t = "obj"
     /\ "name" \in DOMAIN WalkTypes[1].m /\ WalkTypes[1].m["name"] = Str("Query")
     /\ Len(FieldsOfType(WalkTypes[1])) = 1
     /\ FieldsOfType(WalkTypes[1])[1].t = "obj"
     /\ "name" \in DOMAIN FieldsOfType(WalkTypes[1])[1].m
     /\ "type" \in DOMAIN FieldsOfType(WalkTypes[1])[1].m
     /\ FieldsOfType(WalkTypes[1])[1].m["type"].t = "obj")
    => LET field == FieldsOfType(WalkTypes[1])[1]
           ref == field.m["type"]
       IN  /\ introspection
           /\ testable_fields =
                IF OneLevelTestable(ref)
                THEN <<[type_name |-> Str("Query"), field_name |-> field.m["name"]]>>
                ELSE << >>
           /\ (ref = Ref("OBJECT", Null)) => Len(testable_fields) = 1
           /\ (ref = Obj([kind |-> Str("SCALAR")])) => Len(testable_fields) = 0
           /\ (ref = Ref("NON_NULL", Ref("LIST", Null))) => Len(testable_fields) = 1

C4_Witness ==
    /\ Introspected
    /\ response = Enabled(Schema(Arr(<<TypeEntry("Query",
            <<Field("users", Ref("NON_NULL", Ref("NON_NULL", Ref("OBJECT", Null))))>>)>>)))
    /\ introspection /\ testable_fields = << >>

\* Every type entry is a dict with a string name and every field entry a
\* dict with a name: what the pairs of C5 are made of.
TypesAreNamed ==
    /\ HasSchema(response)
    /\ response.value.m["data"].m["__schema"].t = "obj"
    /\ "types" \in DOMAIN response.value.m["data"].m["__schema"].m
    /\ response.value.m["data"].m["__schema"].m["types"].t = "arr"
    /\ \A i \in 1..Len(WalkTypes) :
            /\ WalkTypes[i].t = "obj"
            /\ "name" \in DOMAIN WalkTypes[i].m
            /\ WalkTypes[i].m["name"].t = "str"
            /\ \A j \in 1..Len(FieldsOfType(WalkTypes[i])) :
                    /\ FieldsOfType(WalkTypes[i])[j].t = "obj"
                    /\ "name" \in DOMAIN FieldsOfType(WalkTypes[i])[j].m

\* C5: for every list of types, testable_fields is the list of the
\* (type name, field name) pairs of the testable fields of the types whose
\* name does not start with "__", in type order and then field order, one
\* entry per occurrence.
C5_FieldsInDiscoveryOrder ==
    (Introspected /\ TypesAreNamed) =>
        /\ Len(testable_fields) = Cardinality(TestablePlaces)
        /\ \A p \in TestablePlaces : testable_fields[Rank(p)] = PairAt(p)

\* C6: the walk of a schema whose type and field entries are dicts, some
\* with expected keys missing or null, lets no exception out: it completes.
C6_NoErrorOnMissingKeys ==
    (/\ Introspected /\ HasSchema(response)
     /\ response.value.m["data"].m["__schema"].t = "obj"
     /\ "types" \in DOMAIN response.value.m["data"].m["__schema"].m
     /\ response.value.m["data"].m["__schema"].m["types"].t = "arr"
     /\ \A i \in 1..Len(WalkTypes) :
            /\ WalkTypes[i].t = "obj"
            /\ \A j \in 1..Len(FieldsOfType(WalkTypes[i])) :
                    FieldsOfType(WalkTypes[i])[j].t = "obj")
    => introspection

\* What the specification calls protected.
Protected ==
    \/ last.error # Null
    \/ /\ last.result.t = "obj" /\ "errors" \in DOMAIN last.result.m
       /\ last.result.m["errors"].t = "arr" /\ Len(last.result.m["errors"].a) > 0

\* C7: after every probe the protection hint is printed exactly if
\* _send_query returned an error message or the body holds a non-empty errors
\* array, and the run goes on with the next probe whatever the outcome.
C7_HintIsOutputOnly ==
    (Len(probes) >= 1) =>
        /\ last.check = IF Protected THEN "hint" ELSE "none"
        /\ RunGoesOn

\* C8, as claimed: a probe answered with a body that is not JSON yields
\* (None, elapsed, "Invalid JSON response: <body>"), prints no protection
\* hint, and the run goes on.
C8_BadJsonPrintsNoHint ==
    (Len(probes) >= 1 /\ response.kind = "text") =>
        /\ last.result = Null /\ last.response_time = last.elapsed
        /\ last.error = Str("Invalid JSON response: " \o response.text)
        /\ last.check = "none"
        /\ RunGoesOn

\* C8, amended: a probe answered with a body that is not JSON yields
\* (None, elapsed, "Invalid JSON response: <body>"), prints the protection
\* hint as any error message does, and the run goes on.
C8_BadJsonIsCaught ==
    (Len(probes) >= 1 /\ response.kind = "text") =>
        /\ last.result = Null /\ last.response_time = last.elapsed
        /\ last.error = Str("Invalid JSON response: " \o response.text)
        /\ last.check = "hint"
        /\ RunGoesOn

C8_Witness ==
    /\ Len(probes) = 2 /\ response = TextBody("<html>403</html>")
    /\ last.elapsed = 2 /\ pc = "duplicate"

\* C9: no HTTP request is sent unless the command line is well formed, and
\* every query is built with num_iterations > 0: 100 if the argument is
\* omitted, the argument's value otherwise.
C9_PositiveIterations ==
    /\ (Len(requests) >= 1) =>
            /\ Len(argv) >= 2
            /\ Len(argv) = 2 => num_iterations = DefaultIterations
            /\ Len(argv) > 2 => ParseInt(argv[3]) = [ok |-> TRUE, value |-> num_iterations]
    /\ (Len(argv) < 2 \/ uncaught = "ValueError") =>
            (requests = << >> /\ (pc = "exit" => exit_code # 0))
    /\ (Len(probes) >= 1) => num_iterations > 0

\* The query of the last probe, its field name and its attack.
LastQuery == requests[Len(requests)].query
LastField == Format(probes[Len(probes)][2])
LastAttack == probes[Len(probes)][1]

\* The places of s where p occurs.
Places(s, p) == {i \in 1..(Len(s) - Len(p) + 1) : SubSeq(s, i, i + Len(p) - 1) = p}

\* n selections alias_0 .. alias_{n-1} of the field, in that order, each with
\* the sub-selection { id name }, in one query block: the occurrence of
\* alias_ that has k others before it opens the selection alias_k.
IsAliasQuery(q, f, n) ==
    LET unit == ": " \o f \o " { id name }"
        at == Places(q, "alias_")
        sel(k) == "alias_" \o IntToStr(k) \o unit
        holds(i, k) == SubSeq(q, i, i + Len(sel(k)) - 1) = sel(k)
    IN  /\ StartsWith(q, "query {alias_0: ") /\ EndsWith(q, " { id name }}")
        /\ Cardinality(at) = n
        /\ Cardinality(Places(q, unit)) = n
        /\ Count(q, "query") = 1
        /\ \A i \in at : holds(i, Cardinality({j \in at : j < i}))

\* One selection of the field carrying n @include(if: true) directives.
IsDirectiveQuery(q, f, n) ==
    /\ StartsWith(q, "query { " \o f \o " @include(if: true)")
    /\ EndsWith(q, "@include(if: true) { id name } }")
    /\ Count(q, "@include(if: true)") = n
    /\ Count(q, "{ id name }") = 1
    /\ Count(q, "query") = 1
    /\ Len(q) = Len("query { " \o f \o " ") + 19 * n - 1 + Len(" { id name } }")

\* One selection of the field whose body is id name, n times.
IsDuplicateQuery(q, f, n) ==
    /\ StartsWith(q, "query { " \o f \o " { id name")
    /\ EndsWith(q, "id name } }")
    /\ Count(q, "id name") = n
    /\ Count(q, "query") = 1
    /\ Len(q) = Len("query { " \o f \o " { ") + 8 * n - 1 + Len(" } }")

\* C10: for num_iterations = n > 0 the query of every probe holds n copies of
\* its attack's unit in one query block: n aliased selections alias_0 ..
\* alias_{n-1} in order, or n directives on one selection, or id name n times
\* in the body of one selection.
C10_QueryShape ==
    (Len(probes) >= 1 /\ num_iterations > 0) =>
        CASE LastAttack = "ALIAS" -> IsAliasQuery(LastQuery, LastField, num_iterations)
          [] LastAttack = "DIRECTIVE" ->
                IsDirectiveQuery(LastQuery, LastField, num_iterations)
          [] LastAttack = "DUPLICATE" ->
                IsDuplicateQuery(LastQuery, LastField, num_iterations)

C10_Witness ==
    /\ Len(probes) = 1 /\ num_iterations = DefaultIterations
    /\ LastAttack = "ALIAS" /\ LastField = "users"

====
